---- MODULE Spec2Model ----
(***************************************************************************)
(* A model of the GameUtils helper namespace (utils.js) and of the         *)
(* GAME_CONSTANTS table (constants.js).                                    *)
(*                                                                         *)
(* Part 1 models the two stateful helpers, debounce and throttle, on top   *)
(* of the host's timer facility (setTimeout / clearTimeout) and a clock.   *)
(* The later parts model the pure helpers as operators and apply them to   *)
(* inputs drawn from bounded sets.                                         *)
(***************************************************************************)
EXTENDS Integers, Sequences, FiniteSets, TLC

(***************************************************************************)
(* Bounds of the model.                                                    *)
(***************************************************************************)
\* last clock tick of a run
MaxTime == 8
\* wrapper calls in a run
MaxCalls == 3
\* largest wait / limit a single wrapper is built with
MaxWait == 5
\* last clock tick of a run with several wrappers
PairMaxTime == 2
\* wrapper calls in a run with several wrappers
PairMaxCalls == 3
\* formatTime is given the whole and half seconds from -MaxSeconds to MaxSeconds
MaxSeconds == 125
\* the x and y of a ray's origin and the components of its direction range
\* over -MaxRay..MaxRay
MaxRay == 1

VARIABLES
    \* ---- debounce / throttle ----
    now,        \* the host clock, in ticks
    wrappers,   \* wrapper name -> [kind, delay]: the wrappers that were built
    timers,     \* the host's pending timers
    nextId,     \* the id the next setTimeout returns
    timeout,    \* debounce: each wrapper's closure variable `timeout`
    inThrottle, \* throttle: each wrapper's closure variable `inThrottle`
    trace,      \* history: the wrapper calls, func invocations and resets so far
    \* ---- the pure helpers ----
    op,         \* the helper applied last ("none" before any)
    input,      \* the arguments (and configuration) the run was given
    output      \* what the helpers applied so far returned, in order

timerVars == <<now, wrappers, timers, nextId, timeout, inThrottle, trace>>

pureVars == <<op, input, output>>

vars == <<timerVars, pureVars>>

(***************************************************************************)
(* Part 1: debounce and throttle.                                          *)
(***************************************************************************)
\* the value of a `let` variable that was never assigned
Undefined == "undefined"

\* `let timeout;` before the first call: the id of no timer (setTimeout's
\* ids start at 1), so clearTimeout of it clears nothing
NoTimer == 0

\* `if (!inThrottle)`: of the values the variable takes (undefined, true,
\* false, held as their names) only true is truthy.
Truthy(v) == v = "true"

WrapperNames == {"d1", "d2", "t1", "t2"}

\* setTimeout(cb, delay): one more pending timer, due `delay` ticks from now.
\* The timer remembers the closure it runs: the wrapper, which callback
\* (`later` or the throttle reset) and the arguments `later` captured.
setTimeout(pending, id, w, cb, args, delay) ==
    pending \cup {[id |-> id, due |-> now + delay, w |-> w, cb |-> cb, args |-> args]}

\* clearTimeout(id): the timer with that id is dropped; an id that names no
\* pending timer (undefined, or a timer that ran) changes nothing.
clearTimeout(pending, id) == {tm \in pending : tm.id # id}

CallEvent(w, a) == [type |-> "call", w |-> w, t |-> now, args |-> a, sync |-> FALSE]

\* func is invoked: it is taken to return normally and not to call the
\* wrapper itself
InvokeEvent(w, a, sync) == [type |-> "invoke", w |-> w, t |-> now, args |-> a, sync |-> sync]

ResetEvent(w) == [type |-> "reset", w |-> w, t |-> now, args |-> 0, sync |-> FALSE]

NumCalls == Cardinality({k \in 1..Len(trace) : trace[k].type = "call"})

\* the calls a run may make
CallBudget == IF Cardinality(DOMAIN wrappers) > 1 THEN PairMaxCalls ELSE MaxCalls

\* Every call passes a distinct argument (its sequence number), so that an
\* invocation of func shows which call's arguments it received.
FreshArgs == NumCalls + 1

\* (one `timeout` shared by every debounce wrapper)
timeoutSlotShared(w) == "d1"

\* The closure variable a debounce wrapper's calls read and write: the
\* `timeout` declared inside debounce, one per wrapper.
timeoutSlot(w) == w

\* The closure variable of a throttle wrapper: `inThrottle`, one per wrapper.
inThrottleSlot(w) == w

\* (a debounce wrapper whose calls leave the pending timer alone)
DebouncedCallNoClear(w) ==
    /\ w \in DOMAIN wrappers
    /\ wrappers[w].kind = "debounce"
    /\ NumCalls < CallBudget
    /\ LET args == FreshArgs
       IN /\ timers' = setTimeout(timers, nextId, w, "later", args, wrappers[w].delay)
          /\ timeout' = [timeout EXCEPT ![timeoutSlot(w)] = nextId]
          /\ nextId' = nextId + 1
          /\ trace' = Append(trace, CallEvent(w, args))
    /\ UNCHANGED <<now, wrappers, inThrottle>>
    /\ UNCHANGED pureVars

\* executedFunction(...args): the wrapper debounce returns.
DebouncedCall(w) ==
    /\ w \in DOMAIN wrappers
    /\ wrappers[w].kind = "debounce"
    /\ NumCalls < CallBudget
    /\ LET args == FreshArgs
           cleared == clearTimeout(timers, timeout[timeoutSlot(w)])
       IN /\ timers' = setTimeout(cleared, nextId, w, "later", args, wrappers[w].delay)
          /\ timeout' = [timeout EXCEPT ![timeoutSlot(w)] = nextId]
          /\ nextId' = nextId + 1
          /\ trace' = Append(trace, CallEvent(w, args))
    /\ UNCHANGED <<now, wrappers, inThrottle>>
    /\ UNCHANGED pureVars

\* later(): the callback a debounced call scheduled, run by the host once due.
RunLater(tm) ==
    /\ tm \in timers
    /\ tm.cb = "later"
    /\ tm.due <= now
    /\ timers' = clearTimeout(timers \ {tm}, timeout[timeoutSlot(tm.w)])
    /\ trace' = Append(trace, InvokeEvent(tm.w, tm.args, FALSE))
    /\ UNCHANGED <<now, wrappers, nextId, timeout, inThrottle>>
    /\ UNCHANGED pureVars

\* (a throttle wrapper that schedules the reset but never closes the window)
ThrottledCallNoFlag(w) ==
    /\ w \in DOMAIN wrappers
    /\ wrappers[w].kind = "throttle"
    /\ NumCalls < CallBudget
    /\ LET args == FreshArgs
       IN IF ~Truthy(inThrottle[inThrottleSlot(w)])
          THEN /\ trace' = trace \o <<CallEvent(w, args), InvokeEvent(w, args, TRUE)>>
               /\ inThrottle' = inThrottle
               /\ timers' = setTimeout(timers, nextId, w, "reset", args, wrappers[w].delay)
               /\ nextId' = nextId + 1
          ELSE /\ trace' = Append(trace, CallEvent(w, args))
               /\ UNCHANGED <<inThrottle, timers, nextId>>
    /\ UNCHANGED <<now, wrappers, timeout>>
    /\ UNCHANGED pureVars

\* the wrapper throttle returns
ThrottledCall(w) ==
    /\ w \in DOMAIN wrappers
    /\ wrappers[w].kind = "throttle"
    /\ NumCalls < CallBudget
    /\ LET args == FreshArgs
       IN IF ~Truthy(inThrottle[inThrottleSlot(w)])
          THEN /\ trace' = trace \o <<CallEvent(w, args), InvokeEvent(w, args, TRUE)>>
               /\ inThrottle' = [inThrottle EXCEPT ![inThrottleSlot(w)] = "true"]
               /\ timers' = setTimeout(timers, nextId, w, "reset", args, wrappers[w].delay)
               /\ nextId' = nextId + 1
          ELSE /\ trace' = Append(trace, CallEvent(w, args))
               /\ UNCHANGED <<inThrottle, timers, nextId>>
    /\ UNCHANGED <<now, wrappers, timeout>>
    /\ UNCHANGED pureVars

\* () => inThrottle = false: the callback an invoking throttled call scheduled.
RunReset(tm) ==
    /\ tm \in timers
    /\ tm.cb = "reset"
    /\ tm.due <= now
    /\ timers' = timers \ {tm}
    /\ inThrottle' = [inThrottle EXCEPT ![inThrottleSlot(tm.w)] = "false"]
    /\ trace' = Append(trace, ResetEvent(tm.w))
    /\ UNCHANGED <<now, wrappers, nextId, timeout>>
    /\ UNCHANGED pureVars

\* The clock advances one tick.  The host is punctual: a timer runs at the
\* tick it is due, so the clock does not pass a due timer.  Within one tick
\* the host runs the due callbacks and the callers' tasks in any order.
Tick(last) ==
    /\ now < last
    /\ \A tm \in timers : tm.due > now
    /\ now' = now + 1
    /\ UNCHANGED <<wrappers, timers, nextId, timeout, inThrottle, trace>>
    /\ UNCHANGED pureVars

TimerInit(ws) ==
    /\ now = 0
    /\ wrappers = ws
    /\ timers = {}
    /\ nextId = 1
    /\ timeout = [w \in WrapperNames |-> NoTimer]
    /\ inThrottle = [w \in WrapperNames |-> Undefined]
    /\ trace = <<>>
    /\ op = "none"
    /\ input = <<>>
    /\ output = <<>>

\* no wrapper is built in a run that applies the pure helpers
NoTimers ==
    /\ now = 0
    /\ wrappers = <<>>
    /\ timers = {}
    /\ nextId = 1
    /\ timeout = [w \in WrapperNames |-> NoTimer]
    /\ inThrottle = [w \in WrapperNames |-> Undefined]
    /\ trace = <<>>

\* one debounce wrapper, any wait
InitDebounce ==
    \E wait \in 0..MaxWait : TimerInit([w \in {"d1"} |-> [kind |-> "debounce", delay |-> wait]])

NextDebounce ==
    \/ DebouncedCall("d1")
    \/ \E tm \in timers : RunLater(tm)
    \/ Tick(MaxTime)

SpecDebounce == InitDebounce /\ [][NextDebounce]_vars

\* one throttle wrapper, any limit
InitThrottle ==
    \E limit \in 0..MaxWait : TimerInit([w \in {"t1"} |-> [kind |-> "throttle", delay |-> limit]])

NextThrottle ==
    \/ ThrottledCall("t1")
    \/ \E tm \in timers : RunReset(tm)
    \/ Tick(MaxTime)

SpecThrottle == InitThrottle /\ [][NextThrottle]_vars

\* the delays the wrappers of a run with several wrappers are built with
PairDelays == {1, 2}

\* two debounce wrappers over one func and two throttle wrappers over one func
InitWrappers ==
    \E a, b \in PairDelays :
        TimerInit([w \in WrapperNames |->
                      IF w = "d1" THEN [kind |-> "debounce", delay |-> a]
                      ELSE IF w = "d2" THEN [kind |-> "debounce", delay |-> b]
                      ELSE IF w = "t1" THEN [kind |-> "throttle", delay |-> a]
                      ELSE [kind |-> "throttle", delay |-> b]])

NextWrappers ==
    \/ \E w \in {"d1", "d2"} : DebouncedCall(w)
    \/ \E w \in {"t1", "t2"} : ThrottledCall(w)
    \/ \E tm \in timers : RunLater(tm)
    \/ \E tm \in timers : RunReset(tm)
    \/ Tick(PairMaxTime)

SpecWrappers == InitWrappers /\ [][NextWrappers]_vars

(***************************************************************************)
(* Reading the history.                                                    *)
(***************************************************************************)
Pos == 1..Len(trace)

Debounced == {w \in DOMAIN wrappers : wrappers[w].kind = "debounce"}

Throttled == {w \in DOMAIN wrappers : wrappers[w].kind = "throttle"}

CallsOf(w) == {k \in Pos : trace[k].type = "call" /\ trace[k].w = w}

InvokesOf(w) == {m \in Pos : trace[m].type = "invoke" /\ trace[m].w = w}

\* the invocations of func that received the arguments of the call at k
InvokesFor(k) == {m \in Pos : trace[m].type = "invoke" /\ trace[m].args = trace[k].args}

\* the call at k still has its `later` scheduled
Pending(k) == \E tm \in timers : tm.cb = "later" /\ tm.args = trace[k].args

\* the times of the calls made to w, in order
CallTimes(w) ==
    LET F[n \in 0..Len(trace)] ==
            IF n = 0 THEN <<>>
            ELSE IF n \in CallsOf(w) THEN Append(F[n - 1], trace[n].t) ELSE F[n - 1]
    IN F[Len(trace)]

\* <<time, args>> of the invocations of w's func, in order
Invocations(w) ==
    LET F[n \in 0..Len(trace)] ==
            IF n = 0 THEN <<>>
            ELSE IF n \in InvokesOf(w)
                 THEN Append(F[n - 1], <<trace[n].t, trace[n].args>>)
                 ELSE F[n - 1]
    IN F[Len(trace)]

\* what holds of every invocation a debounced call causes: one at most, from
\* the timer and not from inside the call, `wait` after the call
DebounceInvocationShape(w, k) ==
    /\ Cardinality(InvokesFor(k)) <= 1
    /\ \A m \in InvokesFor(k) :
          /\ m > k
          /\ trace[m].w = w
          /\ ~trace[m].sync
          /\ trace[m].t = trace[k].t + wrappers[w].delay

\* calls at t=0,10,20 with wait=50, one tick being 10 time units: one
\* invocation, at t=70, with the arguments of the third call
DebounceExample(w) ==
    (/\ wrappers[w].delay = 5
     /\ CallTimes(w) = <<0, 1, 2>>
     /\ \A k \in CallsOf(w) : ~Pending(k))
    => \E a \in 1..MaxCalls :
          /\ Invocations(w) = <<<<7, a>>>>
          /\ \E k \in CallsOf(w) : trace[k].t = 2 /\ trace[k].args = a

\* which calls of a debounce wrapper fire, and how
DebounceRule(w) ==
    \A k \in CallsOf(w) :
        /\ DebounceInvocationShape(w, k)
        /\ ~Pending(k) =>
              (InvokesFor(k) # {} <=>
                  ~\E j \in CallsOf(w) :
                      /\ j > k
                      /\ \/ trace[j].t < trace[k].t + wrappers[w].delay
                         \/ /\ trace[j].t = trace[k].t + wrappers[w].delay
                            /\ \A m \in InvokesFor(k) : m > j)

\* C1 as stated: a debounced call fires iff no later call to the wrapper
\* arrives before `wait` has passed since it; it then fires once, `wait`
\* after the call, with the call's arguments, never inside the call.
C1_DebounceAsClaimed ==
    \A w \in Debounced : \A k \in CallsOf(w) :
        /\ DebounceInvocationShape(w, k)
        /\ ~Pending(k) =>
              (InvokesFor(k) # {} <=>
                  ~\E j \in CallsOf(w) :
                      j > k /\ trace[j].t < trace[k].t + wrappers[w].delay)

\* C1 as amended: a debounced call fires iff no later call to the wrapper is
\* made while its timer is pending: a later call fewer than `wait` after it
\* always suppresses it, a later call more than `wait` after it never does,
\* and a later call exactly `wait` after it suppresses it iff that call is made
\* before the timer callback has run.  When it fires it fires once, `wait`
\* after the call, with the call's arguments, never inside the call; calls
\* at t=0,10,20 with wait=50 give one invocation, at t=70, with the third
\* call's arguments.
C1_Debounce == \A w \in Debounced : DebounceExample(w) /\ DebounceRule(w)

\* the example's run has ended: three calls at ticks 0, 1, 2 with a wait of
\* 5 ticks, and func has been invoked
C1_Witness ==
    /\ "d1" \in Debounced
    /\ wrappers["d1"].delay = 5
    /\ CallTimes("d1") = <<0, 1, 2>>
    /\ InvokesOf("d1") # {}

\* the invoking call before the call at k, if any
InvokingBefore(w, k) == {j \in CallsOf(w) : j < k /\ InvokesFor(j) # {}}

LastInvoking(w, k) == CHOOSE j \in InvokingBefore(w, k) : \A i \in InvokingBefore(w, k) : i <= j

\* what holds of every invocation a throttled call causes: one at most, made
\* inside the call itself (no trailing invocation)
ThrottleInvocationShape(w, k) ==
    /\ Cardinality(InvokesFor(k)) <= 1
    /\ \A m \in InvokesFor(k) :
          /\ m = k + 1
          /\ trace[m].w = w
          /\ trace[m].sync
          /\ trace[m].t = trace[k].t

ThrottleSpacing(w) ==
    \A m1, m2 \in InvokesOf(w) :
        m1 < m2 => trace[m2].t - trace[m1].t >= wrappers[w].delay

\* calls at t=0,5,30 with limit=20, one tick being 5 time units: invocations
\* at t=0 and t=30 only
ThrottleExample(w) ==
    (wrappers[w].delay = 4 /\ CallTimes(w) = <<0, 1, 6>>)
    => \E a, b \in 1..MaxCalls :
          /\ Invocations(w) = <<<<0, a>>, <<6, b>>>>
          /\ \E k \in CallsOf(w) : trace[k].t = 0 /\ trace[k].args = a
          /\ \E k \in CallsOf(w) : trace[k].t = 6 /\ trace[k].args = b

\* which calls of a throttle wrapper invoke func, and how
ThrottleRule(w) ==
    \A k \in CallsOf(w) :
        /\ ThrottleInvocationShape(w, k)
        /\ InvokingBefore(w, k) = {} => InvokesFor(k) # {}
        /\ InvokingBefore(w, k) # {} =>
              LET last == LastInvoking(w, k)
                  elapsed == trace[k].t - trace[last].t
                  reset == \E r \in Pos : /\ last < r
                                          /\ r < k
                                          /\ trace[r].type = "reset"
                                          /\ trace[r].w = w
              IN /\ elapsed < wrappers[w].delay => InvokesFor(k) = {}
                 /\ elapsed > wrappers[w].delay => InvokesFor(k) # {}
                 /\ elapsed = wrappers[w].delay => (InvokesFor(k) # {} <=> reset)

TimersOf(w) == {tm \in timers : tm.w = w}

\* this step is a call to wrapper w
CallStep(w) ==
    /\ Len(trace') > Len(trace)
    /\ trace'[Len(trace) + 1].type = "call"
    /\ trace'[Len(trace) + 1].w = w

\* a call to w leaves every other wrapper's timers and closure variables alone
CallsAreLocal ==
    \A w, v \in DOMAIN wrappers :
        (w # v /\ CallStep(w)) =>
            /\ TimersOf(v)' = TimersOf(v)
            /\ timeout'[v] = timeout[v]
            /\ inThrottle'[v] = inThrottle[v]

\* one live timer per debounce wrapper at most
OneLiveTimer == \A w \in Debounced : Cardinality(TimersOf(w)) <= 1

\* func is invoked in the order of the calls that caused the invocations
\* (a call's arguments are its sequence number)
InvokedInCallOrder ==
    \A w \in DOMAIN wrappers : \A m1, m2 \in InvokesOf(w) :
        m1 < m2 => trace[m1].args < trace[m2].args

\* C10: every wrapper owns its timer / flag state.  Under any interleaving of
\* calls to several wrappers a call to one wrapper changes no other wrapper's
\* pending timers or closure variables, so each wrapper fires exactly the
\* calls it would fire alone; a debounce wrapper has at most one live timer;
\* and each wrapper's invocations of func come in the order of the calls
\* that caused them.
C10_WrappersIndependent ==
    /\ [](/\ OneLiveTimer
          /\ InvokedInCallOrder
          /\ \A w \in Debounced : DebounceRule(w)
          /\ \A w \in Throttled : ThrottleSpacing(w) /\ ThrottleRule(w))
    /\ [][CallsAreLocal]_vars

\* a call to d2 was made while d1 had a timer pending, and d1's call fired
\* later all the same; likewise a call to t2 inside t1's window
C10_Witness ==
    \E k1, k2, m \in Pos :
        /\ k1 < k2
        /\ k2 < m
        /\ trace[k1].type = "call" /\ trace[k1].w = "d1"
        /\ trace[k2].type = "call" /\ trace[k2].w = "d2"
        /\ trace[k2].t < trace[k1].t + wrappers["d1"].delay
        /\ trace[m].type = "invoke" /\ trace[m].args = trace[k1].args

(***************************************************************************)
(* Part 2: numbers.  The helpers compute in floating point; the model      *)
(* computes the same expressions exactly, on fractions n/d with d > 0.     *)
(***************************************************************************)
Frac(n, d) == [n |-> n, d |-> d]

Whole(i) == [n |-> i, d |-> 1]

RAdd(a, b) == [n |-> a.n * b.d + b.n * a.d, d |-> a.d * b.d]

RSub(a, b) == [n |-> a.n * b.d - b.n * a.d, d |-> a.d * b.d]

RMul(a, b) == [n |-> a.n * b.n, d |-> a.d * b.d]

\* a / b for b # 0
RDiv(a, b) ==
    IF b.n > 0 THEN [n |-> a.n * b.d, d |-> a.d * b.n]
    ELSE [n |-> -(a.n * b.d), d |-> a.d * (-b.n)]

REq(a, b) == a.n * b.d = b.n * a.d

RLe(a, b) == a.n * b.d <= b.n * a.d

\* Math.floor
Floor(a) == a.n \div a.d

\* Math.round: the nearest integer, a tie going up (floor(x + 1/2))
Round(a) == (2 * a.n + a.d) \div (2 * a.d)

\* Math.max, Math.min
RMax(a, b) == IF RLe(a, b) THEN b ELSE a

RMin(a, b) == IF RLe(a, b) THEN a ELSE b

\* (a clamp that forgets the upper limit)
clampNoUpper(value, min, max) == RMax(value, min)

\* GameUtils.math.clamp
clamp(value, min, max) == RMin(RMax(value, min), max)

\* GameUtils.math.lerp
lerp(start, end, factor) == RAdd(start, RMul(RSub(end, start), factor))

(***************************************************************************)
(* Part 3: colours.  A string is the sequence of its characters.           *)
(***************************************************************************)
\* JavaScript's null
Null == [isNull |-> TRUE]

HexDigitChars ==
    <<"0", "1", "2", "3", "4", "5", "6", "7", "8", "9", "a", "b", "c", "d", "e", "f">>

UpperHexChars == <<"A", "B", "C", "D", "E", "F">>

\* Number.prototype.toString(16)
RECURSIVE toString16(_)
toString16(n) ==
    IF n < 0 THEN <<"-">> \o toString16(-n)
    ELSE IF n < 16 THEN <<HexDigitChars[n + 1]>>
    ELSE Append(toString16(n \div 16), HexDigitChars[(n % 16) + 1])

\* String.prototype.slice(1)
slice1(str) == SubSeq(str, 2, Len(str))

\* x << k.  The operands the model reaches stay far inside 32 bits, where a
\* shift is a multiplication.
Shl(x, k) == x * 2^k

\* (an encoding without the leading 1 that keeps the leading zeros)
rgbToHexNoGuard(r, g, b) == <<"#">> \o slice1(toString16(Shl(r, 16) + Shl(g, 8) + b))

\* GameUtils.color.rgbToHex
rgbToHex(r, g, b) == <<"#">> \o slice1(toString16(Shl(1, 24) + Shl(r, 16) + Shl(g, 8) + b))

\* [a-f\d] under the i flag
IsHexChar(c) ==
    \/ \E i \in 1..16 : HexDigitChars[i] = c
    \/ \E i \in 1..6 : UpperHexChars[i] = c

HexCharValue(c) ==
    IF \E i \in 1..16 : HexDigitChars[i] = c
    THEN (CHOOSE i \in 1..16 : HexDigitChars[i] = c) - 1
    ELSE (CHOOSE i \in 1..6 : UpperHexChars[i] = c) + 9

\* parseInt(pair, 16) of two hex digits
parseInt16(pair) == 16 * HexCharValue(pair[1]) + HexCharValue(pair[2])

\* GameUtils.color.hexToRgb: /^#?([a-f\d]{2})([a-f\d]{2})([a-f\d]{2})$/i
hexToRgb(hex) ==
    LET hash == Len(hex) > 0 /\ hex[1] = "#"
        digits == IF hash THEN slice1(hex) ELSE hex
        result == Len(digits) = 6 /\ \A i \in 1..6 : IsHexChar(digits[i])
    IN IF result
       THEN [r |-> parseInt16(SubSeq(digits, 1, 2)),
             g |-> parseInt16(SubSeq(digits, 3, 4)),
             b |-> parseInt16(SubSeq(digits, 5, 6))]
       ELSE Null

\* (an interpolation that falls back to the second colour)
lerpColorOther(color1, color2, factor) ==
    LET c1 == hexToRgb(color1)
        c2 == hexToRgb(color2)
    IN IF c1 = Null \/ c2 = Null THEN color2
       ELSE rgbToHex(Round(lerp(Whole(c1.r), Whole(c2.r), factor)),
                     Round(lerp(Whole(c1.g), Whole(c2.g), factor)),
                     Round(lerp(Whole(c1.b), Whole(c2.b), factor)))

\* GameUtils.color.lerpColor
lerpColor(color1, color2, factor) ==
    LET c1 == hexToRgb(color1)
        c2 == hexToRgb(color2)
    IN IF c1 = Null \/ c2 = Null THEN color1
       ELSE rgbToHex(Round(lerp(Whole(c1.r), Whole(c2.r), factor)),
                     Round(lerp(Whole(c1.g), Whole(c2.g), factor)),
                     Round(lerp(Whole(c1.b), Whole(c2.b), factor)))

\* channel values next to the digit boundaries
ChannelSamples == {0, 15, 16, 255}

\* every value of one channel against the samples of the other two
RgbInputs ==
    {[kind |-> "rgb", r |-> v, g |-> x, b |-> y] : v \in 0..255, x \in ChannelSamples, y \in ChannelSamples}
    \cup {[kind |-> "rgb", r |-> x, g |-> v, b |-> y] : v \in 0..255, x \in ChannelSamples, y \in ChannelSamples}
    \cup {[kind |-> "rgb", r |-> x, g |-> y, b |-> v] : v \in 0..255, x \in ChannelSamples, y \in ChannelSamples}

\* colour strings, well formed or not, each with the channels it denotes
ColorSamples ==
    {
      [s |-> <<"#", "0", "0", "0", "0", "0", "0">>, ok |-> TRUE, r |-> 0, g |-> 0, b |-> 0],
      [s |-> <<"#", "f", "f", "f", "f", "f", "f">>, ok |-> TRUE, r |-> 255, g |-> 255, b |-> 255],
      [s |-> <<"#", "f", "f", "0", "0", "0", "0">>, ok |-> TRUE, r |-> 255, g |-> 0, b |-> 0],
      [s |-> <<"#", "0", "0", "F", "F", "7", "f">>, ok |-> TRUE, r |-> 0, g |-> 255, b |-> 127],
      [s |-> <<"1", "0", "a", "0", "F", "0">>, ok |-> TRUE, r |-> 16, g |-> 160, b |-> 240],
      [s |-> <<"#", "0", "a", "0", "b", "0", "c">>, ok |-> TRUE, r |-> 10, g |-> 11, b |-> 12],
      [s |-> <<"#", "f", "f", "f">>, ok |-> FALSE, r |-> 0, g |-> 0, b |-> 0],
      [s |-> <<>>, ok |-> FALSE, r |-> 0, g |-> 0, b |-> 0],
      [s |-> <<"#", "g", "g", "g", "g", "g", "g">>, ok |-> FALSE, r |-> 0, g |-> 0, b |-> 0],
      [s |-> <<"#", "f", "f", "0", "0", "0", "0", "0">>, ok |-> FALSE, r |-> 0, g |-> 0, b |-> 0],
      [s |-> <<"#", "#", "f", "f", "0", "0", "0">>, ok |-> FALSE, r |-> 0, g |-> 0, b |-> 0],
      [s |-> <<"f", "f", "0", "0", "0", "0", "#">>, ok |-> FALSE, r |-> 0, g |-> 0, b |-> 0],
      [s |-> <<"#", "f", "f", " ", "0", "0", "0">>, ok |-> FALSE, r |-> 0, g |-> 0, b |-> 0],
      [s |-> <<"r", "e", "d">>, ok |-> FALSE, r |-> 0, g |-> 0, b |-> 0]
    }

\* interpolation factors, inside [0, 1] and outside
Factors ==
    {Frac(0, 1), Frac(1, 4), Frac(1, 3), Frac(1, 2), Frac(2, 3), Frac(1, 1), Frac(3, 2), Frac(-1, 2)}

LerpInputs ==
    {[kind |-> "lerp", color1 |-> c1, color2 |-> c2, factor |-> f] :
        c1 \in ColorSamples, c2 \in ColorSamples, f \in Factors}

InitColor ==
    /\ NoTimers
    /\ op = "none"
    /\ input \in RgbInputs \cup LerpInputs
    /\ output = <<>>

ApplyRgbToHex ==
    /\ op = "none"
    /\ input.kind = "rgb"
    /\ op' = "rgbToHex"
    /\ output' = <<rgbToHex(input.r, input.g, input.b)>>
    /\ UNCHANGED <<input, timerVars>>

\* the string rgbToHex returned is parsed back
ApplyHexToRgb ==
    /\ op = "rgbToHex"
    /\ op' = "hexToRgb"
    /\ output' = Append(output, hexToRgb(output[1]))
    /\ UNCHANGED <<input, timerVars>>

ApplyLerpColor ==
    /\ op = "none"
    /\ input.kind = "lerp"
    /\ op' = "lerpColor"
    /\ output' = <<lerpColor(input.color1.s, input.color2.s, input.factor)>>
    /\ UNCHANGED <<input, timerVars>>

NextColor == ApplyRgbToHex \/ ApplyHexToRgb \/ ApplyLerpColor

SpecColor == InitColor /\ [][NextColor]_vars

\* '#' and six lowercase hex digits
WellFormedHex(str) ==
    /\ Len(str) = 7
    /\ str[1] = "#"
    /\ \A i \in 2..7 : \E j \in 1..16 : HexDigitChars[j] = str[i]

\* the two lowercase hex digits of a channel value
HexPair(v) == <<HexDigitChars[(v \div 16) + 1], HexDigitChars[(v % 16) + 1]>>

\* C5: for r, g, b in [0, 255], rgbToHex(r, g, b) is '#' and six lowercase
\* hex digits, and hexToRgb of it is {r, g, b} again.
C5_RoundTrip ==
    /\ op = "rgbToHex" => WellFormedHex(output[1])
    /\ op = "hexToRgb" =>
          /\ WellFormedHex(output[1])
          /\ output[2] = [r |-> input.r, g |-> input.g, b |-> input.b]

\* a colour with leading zeros went through the round trip
C5_Witness ==
    /\ op = "hexToRgb"
    /\ input.r = 0
    /\ input.g = 15
    /\ input.b = 200
    /\ output = <<<<"#", "0", "0", "0", "f", "c", "8">>, [r |-> 0, g |-> 15, b |-> 200]>>

\* round(c1 + (c2 - c1) * factor), from the channels the strings denote
ExpectedChannel(c1, c2, f) == (2 * (c1 * f.d + (c2 - c1) * f.n) + f.d) \div (2 * f.d)

\* C9: lerpColor returns color1 unchanged when either endpoint is malformed;
\* when both parse and factor is in [0, 1] it returns a well-formed #rrggbb
\* string whose channels are round(c1 + (c2 - c1) * factor), so factor 0
\* decodes to color1's channels and factor 1 to color2's.
C9_LerpColor ==
    op = "lerpColor" =>
        LET c1 == input.color1
            c2 == input.color2
            f == input.factor
            result == output[1]
        IN /\ (~c1.ok \/ ~c2.ok) => result = c1.s
           /\ (c1.ok /\ c2.ok /\ f.n >= 0 /\ f.n <= f.d) =>
                 /\ WellFormedHex(result)
                 /\ result = <<"#">> \o HexPair(ExpectedChannel(c1.r, c2.r, f))
                                    \o HexPair(ExpectedChannel(c1.g, c2.g, f))
                                    \o HexPair(ExpectedChannel(c1.b, c2.b, f))
                 /\ f.n = 0 => hexToRgb(result) = [r |-> c1.r, g |-> c1.g, b |-> c1.b]
                 /\ f.n = f.d => hexToRgb(result) = [r |-> c2.r, g |-> c2.g, b |-> c2.b]

\* a malformed second endpoint: the first colour came back as it was given
C9_Witness ==
    /\ op = "lerpColor"
    /\ input.color1.ok
    /\ ~input.color2.ok
    /\ output = <<input.color1.s>>
    /\ input.color1.s # input.color2.s

(***************************************************************************)
(* Part 4: the game helpers and the constants table.  A value that may be  *)
(* undefined is <<>> when it is, and <<v>> when it is v.                    *)
(***************************************************************************)
Undef == <<>>

Def(v) == <<v>>

\* the fallbacks written into the helpers
DefaultMaxRange == 100

DefaultFalloffStart == 50

DefaultWorldSize == 200

\* constants.js: the WORLD.SIZE of the table as shipped
ShippedWorldSize == 200

\* constants.js as shipped: WEAPONS holds RIFLE only, WORLD.SIZE is set
GAME_CONSTANTS ==
    Def([WEAPONS |-> Def([MAX_RANGE |-> Undef, FALLOFF_START |-> Undef]),
         WORLD |-> Def([SIZE |-> Def(ShippedWorldSize)])])

\* a table with the given WEAPONS and WORLD entries
Table(weapons, world) == Def([WEAPONS |-> weapons, WORLD |-> world])

\* x || d: d when x is undefined or falsy (0), x otherwise
OrDefault(x, d) == IF x = Undef \/ x[1] = 0 THEN d ELSE x[1]

\* GAME_CONSTANTS.WEAPONS?.MAX_RANGE || 100
maxRangeOf(G) ==
    OrDefault(IF G[1].WEAPONS = Undef THEN Undef ELSE G[1].WEAPONS[1].MAX_RANGE,
              DefaultMaxRange)

\* GAME_CONSTANTS.WEAPONS?.FALLOFF_START || 50
falloffStartOf(G) ==
    OrDefault(IF G[1].WEAPONS = Undef THEN Undef ELSE G[1].WEAPONS[1].FALLOFF_START,
              DefaultFalloffStart)

\* GAME_CONSTANTS.WORLD?.SIZE || 200
worldSizeOf(G) ==
    OrDefault(IF G[1].WORLD = Undef THEN Undef ELSE G[1].WORLD[1].SIZE, DefaultWorldSize)

\* (a falloff that grows with the distance instead of shrinking)
calculateDamageInverted(G, baseDamage, distance) ==
    IF G = Undef THEN baseDamage
    ELSE LET maxRange == Whole(maxRangeOf(G))
             falloffStart == Whole(falloffStartOf(G))
         IN IF RLe(distance, falloffStart) THEN baseDamage
            ELSE IF RLe(maxRange, distance) THEN Whole(0)
            ELSE LET falloffFactor ==
                         RDiv(RSub(distance, falloffStart), RSub(maxRange, falloffStart))
                 IN Whole(Round(RMul(baseDamage, falloffFactor)))

\* GameUtils.game.calculateDamage, G being the global GAME_CONSTANTS
calculateDamage(G, baseDamage, distance) ==
    IF G = Undef THEN baseDamage
    ELSE LET maxRange == Whole(maxRangeOf(G))
             falloffStart == Whole(falloffStartOf(G))
         IN IF RLe(distance, falloffStart) THEN baseDamage
            ELSE IF RLe(maxRange, distance) THEN Whole(0)
            ELSE LET falloffFactor ==
                         RSub(Whole(1),
                              RDiv(RSub(distance, falloffStart), RSub(maxRange, falloffStart)))
                 IN Whole(Round(RMul(baseDamage, falloffFactor)))

\* -halfSize
Neg(a) == [n |-> -a.n, d |-> a.d]

\* GameUtils.game.isInBounds
isInBounds(G, position) ==
    IF G = Undef THEN TRUE
    ELSE LET halfSize == RDiv(Whole(worldSizeOf(G)), Whole(2))
         IN /\ RLe(Neg(halfSize), position.x)
            /\ RLe(position.x, halfSize)
            /\ RLe(Neg(halfSize), position.z)
            /\ RLe(position.z, halfSize)

\* GameUtils.game.clampToBounds
clampToBounds(G, position) ==
    IF G = Undef THEN position
    ELSE LET halfSize == RDiv(Whole(worldSizeOf(G)), Whole(2))
         IN [x |-> clamp(position.x, Neg(halfSize), halfSize),
             y |-> position.y,
             z |-> clamp(position.z, Neg(halfSize), halfSize)]

\* what a configured range or size may be: left out, or a number >= 0
MaxRangeChoices == {Undef, Def(0), Def(80), Def(100)}

FalloffStartChoices == {Undef, Def(0), Def(20), Def(50)}

WorldSizeChoices == {Undef, Def(0), Def(5), Def(200)}

\* the tables a run may find: none, the shipped one, one without WEAPONS and
\* WORLD, and tables that set the ranges or the size
DamageTables ==
    {Undef, GAME_CONSTANTS, Table(Undef, Undef)}
    \cup {Table(Def([MAX_RANGE |-> m, FALLOFF_START |-> f]), Undef) :
             m \in MaxRangeChoices, f \in FalloffStartChoices}

BoundsTables ==
    {Undef, GAME_CONSTANTS, Table(Undef, Undef)}
    \cup {Table(Undef, Def([SIZE |-> sz])) : sz \in WorldSizeChoices}

BaseDamages ==
    {Whole(0), Whole(1), Whole(25), Whole(100), Frac(3, 5), Frac(75, 2), Whole(-5)}

Distances ==
    {Whole(-5), Whole(0), Whole(10), Whole(25), Whole(49), Whole(50), Frac(501, 10),
     Whole(51), Whole(75), Frac(151, 2), Whole(99), Whole(100), Whole(101)}

Coordinates ==
    {Whole(-101), Whole(-100), Whole(-3), Frac(-5, 2), Whole(0), Frac(5, 2), Whole(3),
     Whole(100), Whole(101)}

Heights == {Whole(-1000), Whole(2)}

GameInputs ==
    {[kind |-> "damage", G |-> G, base |-> b, distance |-> dist] :
        G \in DamageTables, b \in BaseDamages, dist \in Distances}
    \cup {[kind |-> "position", G |-> G, position |-> [x |-> x, y |-> y, z |-> z]] :
        G \in BoundsTables, x \in Coordinates, y \in Heights, z \in Coordinates}

InitGame ==
    /\ NoTimers
    /\ op = "none"
    /\ input \in GameInputs
    /\ output = <<>>

ApplyCalculateDamage ==
    /\ op = "none"
    /\ input.kind = "damage"
    /\ op' = "calculateDamage"
    /\ output' = <<calculateDamage(input.G, input.base, input.distance)>>
    /\ UNCHANGED <<input, timerVars>>

ApplyIsInBounds ==
    /\ op = "none"
    /\ input.kind = "position"
    /\ op' = "isInBounds"
    /\ output' = <<isInBounds(input.G, input.position)>>
    /\ UNCHANGED <<input, timerVars>>

ApplyClampToBounds ==
    /\ op = "none"
    /\ input.kind = "position"
    /\ op' = "clampToBounds"
    /\ output' = <<clampToBounds(input.G, input.position)>>
    /\ UNCHANGED <<input, timerVars>>

\* the clamped position is clamped once more
ApplyClampAgain ==
    /\ op = "clampToBounds"
    /\ op' = "clampAgain"
    /\ output' = Append(output, clampToBounds(input.G, output[1]))
    /\ UNCHANGED <<input, timerVars>>

\* the clamped position is tested
ApplyIsInBoundsOfClamped ==
    /\ op = "clampToBounds"
    /\ op' = "isInBoundsOfClamped"
    /\ output' = Append(output, isInBounds(input.G, output[1]))
    /\ UNCHANGED <<input, timerVars>>

NextGame ==
    \/ ApplyCalculateDamage
    \/ ApplyIsInBounds
    \/ ApplyClampToBounds
    \/ ApplyClampAgain
    \/ ApplyIsInBoundsOfClamped

SpecGame == InitGame /\ [][NextGame]_vars

\* the field of the table, as configured: undefined or a number
ConfiguredMaxRange(G) == IF G[1].WEAPONS = Undef THEN Undef ELSE G[1].WEAPONS[1].MAX_RANGE

ConfiguredFalloffStart(G) ==
    IF G[1].WEAPONS = Undef THEN Undef ELSE G[1].WEAPONS[1].FALLOFF_START

ConfiguredWorldSize(G) == IF G[1].WORLD = Undef THEN Undef ELSE G[1].WORLD[1].SIZE

\* the configured value when the field is defined, the fallback only when not
ValueOr(x, d) == IF x = Undef THEN d ELSE x[1]

IsWhole(a) == a.n % a.d = 0

\* the damage the falloff rule gives for ranges fs < mr: base up to fs, 0 from
\* mr on, round(base * (mr - distance) / (mr - fs)) between
FalloffDamage(mr, fs, base, dist) ==
    IF dist.n <= fs * dist.d THEN base
    ELSE IF dist.n >= mr * dist.d THEN Whole(0)
    ELSE LET num == base.n * (mr * dist.d - dist.n)
             den == base.d * dist.d * (mr - fs)
         IN Whole((2 * num + den) \div (2 * den))

\* the table is present and the ranges in force are 50 and 100
StandardRanges(G) ==
    /\ G # Undef
    /\ ConfiguredMaxRange(G) \in {Undef, Def(100)}
    /\ ConfiguredFalloffStart(G) \in {Undef, Def(50)}

\* base at or below 50, 0 at or above 100, round(base * (100 - d) / 50) between
DamageFormula ==
    (op = "calculateDamage" /\ StandardRanges(input.G)) =>
        /\ REq(output[1], FalloffDamage(100, 50, input.base, input.distance))
        /\ (input.base = Whole(100) /\ input.distance = Whole(10)) => output[1] = Whole(100)
        /\ (input.base = Whole(100) /\ input.distance = Whole(75)) => output[1] = Whole(50)
        /\ (input.base = Whole(100) /\ input.distance = Whole(100)) => output[1] = Whole(0)

\* the result is within [0, base] and no farther distance gives more
DamageWithinBaseAndFalling ==
    /\ RLe(Whole(0), output[1])
    /\ RLe(output[1], input.base)
    /\ \A far \in Distances :
          RLe(input.distance, far) =>
              RLe(calculateDamage(input.G, input.base, far), output[1])

\* C4 as stated: with falloffStart = 50 and maxRange = 100 the damage follows
\* the three-case formula, and for every base >= 0 it lies in [0, base] and
\* never increases with the distance.
C4_DamageAsClaimed ==
    /\ DamageFormula
    /\ (op = "calculateDamage" /\ StandardRanges(input.G) /\ RLe(Whole(0), input.base))
          => DamageWithinBaseAndFalling

\* C4 as amended: with falloffStart = 50 and maxRange = 100 the damage is base
\* for distance <= 50, 0 for distance >= 100 and round(base * (100 - distance)
\* / 50) between, so calculateDamage(100, 10) = 100, (100, 75) = 50 and
\* (100, 100) = 0; for every integer base >= 0 it lies in [0, base] and never
\* increases with the distance (a fractional base can be rounded up past
\* itself inside the falloff range).
C4_Damage ==
    /\ DamageFormula
    /\ (/\ op = "calculateDamage"
        /\ StandardRanges(input.G)
        /\ RLe(Whole(0), input.base)
        /\ IsWhole(input.base))
          => DamageWithinBaseAndFalling

\* calculateDamage(100, 75) under the shipped table returned 50
C4_Witness ==
    /\ op = "calculateDamage"
    /\ input.G = GAME_CONSTANTS
    /\ input.base = Whole(100)
    /\ input.distance = Whole(75)
    /\ output = <<Whole(50)>>

\* the bounds test with half = size / 2, on the doubled coordinates
WithinHalf(size, a) == -size * a.d <= 2 * a.n /\ 2 * a.n <= size * a.d

\* C7: with the table present, a field that is defined is the value used,
\* 0 included; the fallbacks 100, 50 and 200 stand in only for a field that
\* is not defined.
C7_FallbackOnlyWhenUndefined ==
    /\ (op = "calculateDamage" /\ input.G # Undef) =>
          LET mr == ValueOr(ConfiguredMaxRange(input.G), 100)
              fs == ValueOr(ConfiguredFalloffStart(input.G), 50)
          IN REq(output[1],
                 IF fs < mr THEN FalloffDamage(mr, fs, input.base, input.distance)
                 ELSE IF input.distance.n <= fs * input.distance.d THEN input.base
                 ELSE Whole(0))
    /\ (op = "isInBounds" /\ input.G # Undef) =>
          LET size == ValueOr(ConfiguredWorldSize(input.G), 200)
          IN output[1] = (WithinHalf(size, input.position.x) /\ WithinHalf(size, input.position.z))
    /\ (op = "clampToBounds" /\ input.G # Undef) =>
          LET size == ValueOr(ConfiguredWorldSize(input.G), 200)
          IN WithinHalf(size, output[1].x) /\ WithinHalf(size, output[1].z)

\* C8: with the table present and half = worldSize / 2 (worldSize being the
\* size the helpers work with), isInBounds(p) is true iff x and z are within
\* [-half, half], whatever y is; clampToBounds(p) keeps y and brings x and z
\* into [-half, half], so isInBounds(clampToBounds(p)) is true, clampToBounds
\* returns an in-bounds p as it is, and clamping twice is clamping once.
C8_Bounds ==
    (input # <<>> /\ input.kind = "position" /\ input.G # Undef) =>
        LET size == worldSizeOf(input.G)
            p == input.position
            inside == WithinHalf(size, p.x) /\ WithinHalf(size, p.z)
            SamePosition(a, b) == REq(a.x, b.x) /\ REq(a.y, b.y) /\ REq(a.z, b.z)
        IN /\ op = "isInBounds" => output[1] = inside
           /\ op \in {"clampToBounds", "clampAgain", "isInBoundsOfClamped"} =>
                 /\ output[1].y = p.y
                 /\ WithinHalf(size, output[1].x)
                 /\ WithinHalf(size, output[1].z)
                 /\ 2 * p.x.n < -size * p.x.d => REq(output[1].x, Frac(-size, 2))
                 /\ 2 * p.x.n > size * p.x.d => REq(output[1].x, Frac(size, 2))
                 /\ 2 * p.z.n < -size * p.z.d => REq(output[1].z, Frac(-size, 2))
                 /\ 2 * p.z.n > size * p.z.d => REq(output[1].z, Frac(size, 2))
                 /\ inside => SamePosition(output[1], p)
           /\ op = "clampAgain" => SamePosition(output[2], output[1])
           /\ op = "isInBoundsOfClamped" => output[2] = TRUE

\* a position outside the world on both axes was clamped, and the clamped
\* position passed the bounds test
C8_Witness ==
    /\ op = "isInBoundsOfClamped"
    /\ input.G = GAME_CONSTANTS
    /\ input.position = [x |-> Whole(101), y |-> Whole(-1000), z |-> Whole(-101)]
    /\ output[1] # input.position
    /\ output[2] = TRUE

(***************************************************************************)
(* Part 5: formatTime.                                                     *)
(***************************************************************************)
DecimalChars == <<"0", "1", "2", "3", "4", "5", "6", "7", "8", "9">>

\* Number.prototype.toString() of an integer, as a template literal renders it
RECURSIVE numToString(_)
numToString(i) ==
    IF i < 0 THEN <<"-">> \o numToString(-i)
    ELSE IF i < 10 THEN <<DecimalChars[i + 1]>>
    ELSE Append(numToString(i \div 10), DecimalChars[(i % 10) + 1])

\* the integer part of a / b for whole a and b > 0, rounded toward zero
TruncDiv(a, b) == IF a >= 0 THEN a \div b ELSE -((-a) \div b)

\* seconds % 60: the remainder has the sign of the dividend
Rem60(a) == [n |-> a.n - 60 * a.d * TruncDiv(a.n, 60 * a.d), d |-> a.d]

\* String.prototype.padStart(2, '0')
padStart2(str) == IF Len(str) < 2 THEN <<"0">> \o str ELSE str

\* (a formatTime that does not pad the seconds)
formatTimeUnpadded(seconds) ==
    LET mins == Floor(RDiv(seconds, Whole(60)))
        secs == Floor(Rem60(seconds))
    IN numToString(mins) \o <<":">> \o numToString(secs)

\* GameUtils.general.formatTime
formatTime(seconds) ==
    LET mins == Floor(RDiv(seconds, Whole(60)))
        secs == Floor(Rem60(seconds))
    IN numToString(mins) \o <<":">> \o padStart2(numToString(secs))

SecondsInputs ==
    {Whole(n) : n \in (-MaxSeconds)..MaxSeconds}
    \cup {Frac(2 * n + 1, 2) : n \in (-MaxSeconds)..(MaxSeconds - 1)}
    \cup {Whole(599), Whole(600), Whole(3599), Whole(3600), Whole(7325), Whole(-3601)}

InitTime ==
    /\ NoTimers
    /\ op = "none"
    /\ input \in SecondsInputs
    /\ output = <<>>

ApplyFormatTime ==
    /\ op = "none"
    /\ op' = "formatTime"
    /\ output' = <<formatTime(input)>>
    /\ UNCHANGED <<input, timerVars>>

NextTime == ApplyFormatTime

SpecTime == InitTime /\ [][NextTime]_vars

\* M ":" SS for whole M and SS: M as it is, SS with a leading 0 when it is a
\* single digit, and with its sign (and no padding) when it is negative
Clock(m, ss) ==
    numToString(m) \o <<":">> \o
        (IF ss < 0 THEN <<"-">> \o numToString(-ss)
         ELSE <<DecimalChars[(ss \div 10) + 1], DecimalChars[(ss % 10) + 1]>>)

\* C6 as stated: for every s, negative and fractional ones included,
\* formatTime(s) is M:SS with M = s / 60 truncated toward zero and SS = the
\* remainder of s modulo 60 truncated toward zero, zero-padded to 2 digits.
C6_FormatTimeAsClaimed ==
    op = "formatTime" =>
        LET m == TruncDiv(input.n, 60 * input.d)
            ss == TruncDiv(input.n - 60 * input.d * m, input.d)
        IN output[1] = Clock(m, ss)

\* C6 as amended: formatTime(s) is M:SS with M = floor(s / 60) and SS =
\* floor(s % 60), the remainder s % 60 having the sign of s; SS is padded
\* with a leading 0 when it is a single digit.  For s >= 0 that is s / 60
\* and the remainder truncated toward zero; for s < 0 both are rounded
\* toward minus infinity and SS keeps its sign (formatTime(-30) = "-1:-30").
\* formatTime(125) = "2:05" and formatTime(59) = "0:59".
C6_FormatTime ==
    op = "formatTime" =>
        LET m == input.n \div (60 * input.d)
            ss == (input.n - 60 * input.d * TruncDiv(input.n, 60 * input.d)) \div input.d
        IN /\ output[1] = Clock(m, ss)
           /\ input.n >= 0 => /\ m = TruncDiv(input.n, 60 * input.d)
                              /\ ss = TruncDiv(input.n - 60 * input.d * m, input.d)
                              /\ ss \in 0..59
           /\ input = Whole(125) => output[1] = <<"2", ":", "0", "5">>
           /\ input = Whole(59) => output[1] = <<"0", ":", "5", "9">>
           /\ input = Whole(-30) => output[1] = <<"-", "1", ":", "-", "3", "0">>

\* formatTime(125) returned "2:05"
C6_Witness ==
    /\ op = "formatTime"
    /\ input = Whole(125)
    /\ output = <<<<"2", ":", "0", "5">>>>

(***************************************************************************)
(* Part 6: raySphere.  Vectors have whole components.  The root the        *)
(* helper takes is (-b - sqrt(D)) / (2a), in general no fraction: a number  *)
(* (p + q * sqrt(D)) / den, den > 0, is held as [p, q, D, den], and the    *)
(* helper's arithmetic on it is exact.                                     *)
(***************************************************************************)
Vec(x, y, z) == [x |-> x, y |-> y, z |-> z]

\* GameUtils.vector.subtract
subtract(vec1, vec2) == [x |-> vec1.x - vec2.x, y |-> vec1.y - vec2.y, z |-> vec1.z - vec2.z]

\* GameUtils.vector.dot
dot(vec1, vec2) == vec1.x * vec2.x + vec1.y * vec2.y + vec1.z * vec2.z

Surd(p, q, D, den) == [p |-> p, q |-> q, D |-> D, den |-> den]

\* (p + q * sqrt(D)) / den > 0, for den > 0
SurdPositive(s) ==
    IF s.q = 0 \/ s.D = 0 THEN s.p > 0
    ELSE IF s.q < 0 THEN s.p > 0 /\ s.p * s.p > s.q * s.q * s.D
    ELSE s.p >= 0 \/ s.q * s.q * s.D > s.p * s.p

\* GameUtils.vector.multiply, the scalar being such a number
multiply(vec, scalar) ==
    [x |-> Surd(vec.x * scalar.p, vec.x * scalar.q, scalar.D, scalar.den),
     y |-> Surd(vec.y * scalar.p, vec.y * scalar.q, scalar.D, scalar.den),
     z |-> Surd(vec.z * scalar.p, vec.z * scalar.q, scalar.D, scalar.den)]

\* GameUtils.vector.add of whole components and such numbers
add(vec1, vec2) ==
    [x |-> Surd(vec1.x * vec2.x.den + vec2.x.p, vec2.x.q, vec2.x.D, vec2.x.den),
     y |-> Surd(vec1.y * vec2.y.den + vec2.y.p, vec2.y.q, vec2.y.D, vec2.y.den),
     z |-> Surd(vec1.z * vec2.z.den + vec2.z.p, vec2.z.q, vec2.z.D, vec2.z.den)]

\* (a raySphere that takes the far root)
raySphereFarRoot(rayOrigin, rayDirection, sphereCenter, radius) ==
    LET oc == subtract(rayOrigin, sphereCenter)
        a == dot(rayDirection, rayDirection)
        b == 2 * dot(oc, rayDirection)
        c == dot(oc, oc) - radius * radius
        discriminant == b * b - 4 * a * c
    IN IF discriminant < 0 THEN Null
       ELSE IF a = 0 THEN Null
       ELSE LET t == Surd(-b, 1, discriminant, 2 * a)
            IN IF SurdPositive(t)
               THEN [hit |-> TRUE, distance |-> t,
                     point |-> add(rayOrigin, multiply(rayDirection, t))]
               ELSE Null

\* GameUtils.collision.raySphere.  For the zero direction a = 0 and the
\* discriminant is b * b: t is (-b - |b|) / 0, which is NaN or -Infinity,
\* and `t > 0` is false.
raySphere(rayOrigin, rayDirection, sphereCenter, radius) ==
    LET oc == subtract(rayOrigin, sphereCenter)
        a == dot(rayDirection, rayDirection)
        b == 2 * dot(oc, rayDirection)
        c == dot(oc, oc) - radius * radius
        discriminant == b * b - 4 * a * c
    IN IF discriminant < 0 THEN Null
       ELSE IF a = 0 THEN Null
       ELSE LET t == Surd(-b, -1, discriminant, 2 * a)
            IN IF SurdPositive(t)
               THEN [hit |-> TRUE, distance |-> t,
                     point |-> add(rayOrigin, multiply(rayDirection, t))]
               ELSE Null

\* where along the z axis a ray starts
OriginDepths == {-5, -2, -1, 0, 1, 3}

RayOrigins == {Vec(x, y, z) : x \in (-MaxRay)..MaxRay, y \in 0..MaxRay, z \in OriginDepths}

RayDirections ==
    {Vec(x, y, z) : x \in (-MaxRay)..MaxRay, y \in (-MaxRay)..MaxRay, z \in (-MaxRay)..MaxRay}

SphereCenters == {Vec(0, 0, 0), Vec(1, 0, -1)}

Radii == {0, 1, 2}

InitRay ==
    /\ NoTimers
    /\ op = "none"
    /\ input \in {[origin |-> o, dir |-> d, center |-> c, radius |-> r] :
                     o \in RayOrigins, d \in RayDirections, c \in SphereCenters, r \in Radii}
    /\ output = <<>>

ApplyRaySphere ==
    /\ op = "none"
    /\ op' = "raySphere"
    /\ output' = <<raySphere(input.origin, input.dir, input.center, input.radius)>>
    /\ UNCHANGED <<input, timerVars>>

NextRay == ApplyRaySphere

SpecRay == InitRay /\ [][NextRay]_vars

\* s1 = s2, for two such numbers over the same D whose sqrt is no fraction
\* or whose q agree in being zero or not
SurdEq(s1, s2) ==
    /\ s1.D = s2.D
    /\ s1.p * s2.den = s2.p * s1.den
    /\ s1.q * s2.den = s2.q * s1.den

\* a * t * t + b * t + c = 0, both the whole part and the sqrt(D) part being 0
IsRoot(a, b, c, t) ==
    /\ a * (t.p * t.p + t.q * t.q * t.D) + b * t.p * t.den + c * t.den * t.den = 0
    /\ 2 * a * t.p * t.q + b * t.q * t.den = 0

\* the value of such a number when D is a square and the value is whole
WholeValue(s) ==
    LET root == CHOOSE k \in 0..s.D : k * k = s.D
    IN (s.p + s.q * root) \div s.den

\* C3: for a non-zero direction raySphere reports a hit only when the
\* discriminant is >= 0 and the near root t = (-b - sqrt(disc)) / (2a) is > 0,
\* with distance = t and point = origin + dir * t, and null otherwise.  So an
\* origin strictly inside the sphere gives null for every direction, and a hit
\* is reported exactly when disc >= 0, dot(oc, dir) < 0 and the origin is
\* strictly outside; origin (0,0,-5), dir (0,0,1), centre (0,0,0), r = 1 give
\* distance 4 and point (0,0,-1).
C3_RaySphere ==
    (op = "raySphere" /\ input.dir # Vec(0, 0, 0)) =>
        LET o == input.origin
            d == input.dir
            ocx == o.x - input.center.x
            ocy == o.y - input.center.y
            ocz == o.z - input.center.z
            a == d.x * d.x + d.y * d.y + d.z * d.z
            ocd == ocx * d.x + ocy * d.y + ocz * d.z
            oc2 == ocx * ocx + ocy * ocy + ocz * ocz
            r2 == input.radius * input.radius
            disc == 4 * ocd * ocd - 4 * a * (oc2 - r2)
            res == output[1]
        IN /\ res # Null <=> (disc >= 0 /\ ocd < 0 /\ oc2 > r2)
           /\ oc2 < r2 => res = Null
           /\ res # Null =>
                 /\ res.hit
                 /\ res.distance.den > 0
                 /\ res.distance.D = disc
                 /\ IsRoot(a, 2 * ocd, oc2 - r2, res.distance)
                 /\ res.distance.q < 0
                 /\ SurdPositive(res.distance)
                 /\ SurdEq(res.point.x, Surd(o.x * res.distance.den + d.x * res.distance.p,
                                             d.x * res.distance.q, disc, res.distance.den))
                 /\ SurdEq(res.point.y, Surd(o.y * res.distance.den + d.y * res.distance.p,
                                             d.y * res.distance.q, disc, res.distance.den))
                 /\ SurdEq(res.point.z, Surd(o.z * res.distance.den + d.z * res.distance.p,
                                             d.z * res.distance.q, disc, res.distance.den))
           /\ (/\ o = Vec(0, 0, -5)
               /\ d = Vec(0, 0, 1)
               /\ input.center = Vec(0, 0, 0)
               /\ input.radius = 1) =>
                 /\ res # Null
                 /\ WholeValue(res.distance) = 4
                 /\ WholeValue(res.point.x) = 0
                 /\ WholeValue(res.point.y) = 0
                 /\ WholeValue(res.point.z) = -1

\* the ray from (0,0,-5) along (0,0,1) hit the unit sphere at the origin
C3_Witness ==
    /\ op = "raySphere"
    /\ input = [origin |-> Vec(0, 0, -5), dir |-> Vec(0, 0, 1),
                center |-> Vec(0, 0, 0), radius |-> 1]
    /\ output[1] # Null
    /\ output[1].hit

====
